---- MODULE Spec2Model ----
(***************************************************************************)
(* Job Analysis Interview app (src/app.py).                                *)
(*                                                                         *)
(* Spec           the Streamlit session: one action per script run of      *)
(*                main(), triggered by one widget event.                   *)
(* SpecSanitizer  the response post-processing of call_llm applied to      *)
(*                bounded generated texts, once and then once more.        *)
(* SpecSynthesis  generate_synthesis applied to bounded service outcomes.  *)
(* SpecCoverage   update_coverage called on a caller-owned mapping.        *)
(***************************************************************************)
EXTENDS Integers, Sequences, FiniteSets, TLC

VARIABLES
    messages,            \* st.session_state.messages: the transcript
    coverage,            \* st.session_state.coverage: key -> [name, covered]
    interview_complete,  \* st.session_state.interview_complete
    ksao_result,         \* st.session_state.ksao_result: None or Some(dict)
    initialized,         \* st.session_state.initialized
    job_context,         \* st.session_state.job_context
    job_title,           \* st.session_state.job_title
    setup_complete,      \* st.session_state.setup_complete
    event,               \* the widget event of the last script run and the warning it rendered
    arg,                 \* function harness: the caller's argument objects
    ret,                 \* function harness: the values returned so far
    pc                   \* function harness: position of the caller

session == <<messages, coverage, interview_complete, ksao_result, initialized,
             job_context, job_title, setup_complete>>
harness == <<arg, ret, pc>>
vars == <<messages, coverage, interview_complete, ksao_result, initialized,
          job_context, job_title, setup_complete, event, arg, ret, pc>>

(***************************************************************************)
(* Bounds of the model.                                                    *)
(***************************************************************************)
\* user messages accepted per session
MaxTurns == 4
\* chunks concatenated into one generated text
MaxChunks == 4

(***************************************************************************)
(* Python values.                                                          *)
(***************************************************************************)
\* Python None and a present value, for an optional field
None == <<>>
Some(v) == <<v>>

SetMin(S) == CHOOSE m \in S : \A n \in S : m <= n
SetMax(S) == CHOOSE m \in S : \A n \in S : m >= n

\* 1-based positions at which sub occurs in s
Occurrences(s, sub) ==
    {i \in 1..(Len(s) - Len(sub) + 1) : SubSeq(s, i, i + Len(sub) - 1) = sub}

\* sub in s
Contains(s, sub) == Occurrences(s, sub) # {}

\* s.find(sub): 0-based index of the first occurrence, or -1
Find(s, sub) ==
    IF Occurrences(s, sub) = {} THEN -1 ELSE SetMin(Occurrences(s, sub)) - 1

\* s.rfind(sub): 0-based index of the last occurrence, or -1
RFind(s, sub) ==
    IF Occurrences(s, sub) = {} THEN -1 ELSE SetMax(Occurrences(s, sub)) - 1

\* the whitespace of the bounded inputs
Whitespace == {" ", "\t", "\n"}

\* s.strip()
Strip(s) ==
    LET keep == {i \in 1..Len(s) : SubSeq(s, i, i) \notin Whitespace}
    IN  IF keep = {} THEN "" ELSE SubSeq(s, SetMin(keep), SetMax(keep))

UpperToLower ==
    ("A" :> "a") @@ ("B" :> "b") @@ ("C" :> "c") @@ ("D" :> "d") @@ ("E" :> "e") @@
    ("F" :> "f") @@ ("G" :> "g") @@ ("H" :> "h") @@ ("I" :> "i") @@ ("J" :> "j") @@
    ("K" :> "k") @@ ("L" :> "l") @@ ("M" :> "m") @@ ("N" :> "n") @@ ("O" :> "o") @@
    ("P" :> "p") @@ ("Q" :> "q") @@ ("R" :> "r") @@ ("S" :> "s") @@ ("T" :> "t") @@
    ("U" :> "u") @@ ("V" :> "v") @@ ("W" :> "w") @@ ("X" :> "x") @@ ("Y" :> "y") @@
    ("Z" :> "z")

RECURSIVE Lower(_)
\* s.lower()
Lower(s) ==
    IF s = "" THEN ""
    ELSE LET c == SubSeq(s, 1, 1)
         IN  (IF c \in DOMAIN UpperToLower THEN UpperToLower[c] ELSE c)
                 \o Lower(SubSeq(s, 2, Len(s)))

RECURSIVE Join(_)
\* the concatenation of a sequence of strings
Join(chunks) ==
    IF chunks = <<>> THEN "" ELSE Head(chunks) \o Join(Tail(chunks))

\* the sequences of at most n elements of S
SeqUpTo(S, n) == UNION {[1..k -> S] : k \in 0..n}

(***************************************************************************)
(* call_llm: the generation call and the response sanitizer.               *)
(***************************************************************************)
\* outcome of client.messages.create: generated text, or an exception
Generated(text) == [ok |-> TRUE, text |-> text]
Raised(err) == [ok |-> FALSE, err |-> err]

\* The three symbol markers of the source (U+25D0, U+25CB, U+2713) are written
\* with ASCII stand-ins; every text of the model holds them as whole glyphs.
HalfCircle == "<U+25D0>"
Circle == "<U+25CB>"
CheckMark == "<U+2713>"

Markers ==
    <<"COVERAGE", "PROGRESS:", "INTERNAL", "exchanges", HalfCircle, Circle, CheckMark>>

Fallback == "Could you tell me more about that?"

TerminalPunctuation == {".", "?", "!"}

\* variant: text.split(marker)[-1], the piece after the last occurrence
SplitLast(text, marker) ==
    SubSeq(text, RFind(text, marker) + Len(marker) + 1, Len(text))

\* text.split(marker)[0]
SplitFirst(text, marker) == SubSeq(text, 1, Find(text, marker))

RECURSIVE StripMarkers(_, _)
\* the marker loop, from marker number i on
StripMarkers(text, i) ==
    IF i > Len(Markers) THEN text
    ELSE StripMarkers(IF Contains(text, Markers[i])
                      THEN Strip(SplitFirst(text, Markers[i]))
                      ELSE text,
                      i + 1)

\* variant: text[:last_period], dropping the punctuation mark itself
TruncateBefore(text, last_period) == SubSeq(text, 1, last_period)

\* text[:last_period + 1], applied when last_period > 0
TruncateAt(text, last_period) == SubSeq(text, 1, last_period + 1)

\* removal of a trailing incomplete sentence
TrimIncomplete(text) ==
    IF text # "" /\ SubSeq(text, Len(text), Len(text)) \notin TerminalPunctuation
    THEN LET last_period == SetMax({RFind(text, "."), RFind(text, "?"), RFind(text, "!")})
         IN  IF last_period > 0 THEN TruncateAt(text, last_period) ELSE text
    ELSE text

\* the post-processing of the generated text
Sanitize(text) ==
    LET t == TrimIncomplete(StripMarkers(text, 1))
    IN  IF t # "" THEN t ELSE Fallback

\* str(e)[:50]
First50(s) == SubSeq(s, 1, IF Len(s) < 50 THEN Len(s) ELSE 50)

call_llm(resp) ==
    IF resp.ok THEN Sanitize(resp.text)
    ELSE "Technical issue: " \o First50(resp.err)

(***************************************************************************)
(* json.loads, for the JSON of the bounded inputs: objects whose members   *)
(* are strings without escapes, unsigned integers and nested objects.      *)
(***************************************************************************)
\* the character at 1-based position i, "" past the end
At(s, i) == IF i >= 1 /\ i <= Len(s) THEN SubSeq(s, i, i) ELSE ""

JsonWhitespace == {" ", "\t", "\n", "\r"}

DigitValue ==
    ("0" :> 0) @@ ("1" :> 1) @@ ("2" :> 2) @@ ("3" :> 3) @@ ("4" :> 4) @@
    ("5" :> 5) @@ ("6" :> 6) @@ ("7" :> 7) @@ ("8" :> 8) @@ ("9" :> 9)

Parsed(val, next) == [ok |-> TRUE, val |-> val, next |-> next]
ParseError(msg) == [ok |-> FALSE, msg |-> msg]

\* an empty dict
EmptyDict == [k \in {} |-> 0]

RECURSIVE SkipWs(_, _)
SkipWs(s, i) == IF At(s, i) \in JsonWhitespace THEN SkipWs(s, i + 1) ELSE i

\* a string literal opening at position i
ParseString(s, i) ==
    LET closing == {j \in (i + 1)..Len(s) : At(s, j) = "\""}
    IN  IF closing = {} THEN ParseError("Unterminated string starting at")
        ELSE Parsed(SubSeq(s, i + 1, SetMin(closing) - 1), SetMin(closing) + 1)

RECURSIVE ParseDigits(_, _, _)
ParseDigits(s, i, n) ==
    IF At(s, i) \in DOMAIN DigitValue
    THEN ParseDigits(s, i + 1, 10 * n + DigitValue[At(s, i)])
    ELSE Parsed(n, i)

\* an unsigned integer literal opening at position i
ParseNumber(s, i) ==
    IF At(s, i) = "0" THEN Parsed(0, i + 1) ELSE ParseDigits(s, i, 0)

RECURSIVE ParseValue(_, _)
RECURSIVE ParseMembers(_, _, _)

\* an object literal opening at position i
ParseObject(s, i) ==
    LET j == SkipWs(s, i + 1)
    IN  IF At(s, j) = "}" THEN Parsed(EmptyDict, j + 1)
        ELSE ParseMembers(s, j, EmptyDict)

ParseMembers(s, i, members) ==
    IF At(s, i) # "\""
    THEN ParseError("Expecting property name enclosed in double quotes")
    ELSE LET key == ParseString(s, i)
         IN  IF ~key.ok THEN key
             ELSE LET colon == SkipWs(s, key.next)
                  IN  IF At(s, colon) # ":" THEN ParseError("Expecting ':' delimiter")
                      ELSE LET value == ParseValue(s, SkipWs(s, colon + 1))
                           IN  IF ~value.ok THEN value
                               ELSE LET dict == (key.val :> value.val) @@ members
                                        after == SkipWs(s, value.next)
                                    IN  IF At(s, after) = "}" THEN Parsed(dict, after + 1)
                                        ELSE IF At(s, after) = ","
                                        THEN ParseMembers(s, SkipWs(s, after + 1), dict)
                                        ELSE ParseError("Expecting ',' delimiter")

ParseValue(s, i) ==
    IF At(s, i) = "{" THEN ParseObject(s, i)
    ELSE IF At(s, i) = "\"" THEN ParseString(s, i)
    ELSE IF At(s, i) \in DOMAIN DigitValue THEN ParseNumber(s, i)
    ELSE ParseError("Expecting value")

\* json.loads(s): the document, or the JSONDecodeError
JsonLoads(s) ==
    LET value == ParseValue(s, SkipWs(s, 1))
    IN  IF ~value.ok THEN value
        ELSE IF SkipWs(s, value.next) <= Len(s) THEN ParseError("Extra data")
        ELSE value

(***************************************************************************)
(* generate_synthesis.  The transcript only enters the request sent to the *)
(* service; the result is decided by the service's outcome resp.           *)
(***************************************************************************)
\* variant: text[start:end - 1], as if end were rfind('}') without the + 1
SliceOpen(text, start, end) == SubSeq(text, start + 1, end - 1)

\* text[start:end]
Slice(text, start, end) == SubSeq(text, start + 1, end)

generate_synthesis(msgs, title, resp) ==
    IF ~resp.ok THEN [error |-> resp.err]
    ELSE LET text == resp.text
             start == Find(text, "{")
             end == RFind(text, "}") + 1
         IN  IF start >= 0 /\ end > start
             THEN LET doc == JsonLoads(Slice(text, start, end))
                  IN  IF doc.ok THEN doc.val
                      ELSE [error |-> "JSON parse error: " \o doc.msg]
             ELSE [error |-> "No JSON found", raw |-> text]

(***************************************************************************)
(* Coverage tracker.                                                       *)
(***************************************************************************)
COVERAGE_AREAS ==
    [core_responsibilities |-> [name |-> "Core Responsibilities", covered |-> FALSE],
     technical_skills      |-> [name |-> "Technical Skills", covered |-> FALSE],
     soft_skills           |-> [name |-> "Interpersonal Skills", covered |-> FALSE],
     knowledge_areas       |-> [name |-> "Required Knowledge", covered |-> FALSE],
     success_factors       |-> [name |-> "Top Performer Traits", covered |-> FALSE],
     challenges            |-> [name |-> "Challenges", covered |-> FALSE],
     critical_incidents    |-> [name |-> "Specific Examples", covered |-> FALSE]]

checks ==
    [core_responsibilities |-> {"day-to-day", "typical", "responsibilities", "tasks", "week"},
     technical_skills      |-> {"python", "sql", "tool", "software", "excel", "code"},
     soft_skills           |-> {"stakeholder", "communicate", "team", "collaborate", "meeting"},
     knowledge_areas       |-> {"know", "understand", "learn", "background", "domain"},
     success_factors       |-> {"great", "top performer", "best", "successful", "distinguish"},
     challenges            |-> {"challenge", "difficult", "hard", "frustrat", "problem"},
     critical_incidents    |-> {"example", "recently", "once", "specific", "instance"}]

\* any(w in m for w in words)
AnyWordIn(m, words) == \E w \in words : Contains(m, w)

\* variant: every flag is assigned the outcome of this message's match
update_coverage_overwriting(msg, cov) ==
    [key \in DOMAIN cov |->
        [cov[key] EXCEPT !.covered =
            (key \in DOMAIN checks /\ AnyWordIn(Lower(msg), checks[key]))]]

\* The contents of the mapping object after the call.  The function assigns
\* into the object it was given and returns that same object, so this is both
\* the caller's mapping after the call and the value returned.
update_coverage(msg, cov) ==
    LET m == Lower(msg)
    IN  [key \in DOMAIN cov |->
            IF key \in DOMAIN checks /\ AnyWordIn(m, checks[key])
            THEN [cov[key] EXCEPT !.covered = TRUE]
            ELSE cov[key]]

(***************************************************************************)
(* main(): the session state and the script runs.                          *)
(***************************************************************************)
Message(role, content) == [role |-> role, content |-> content]

get_intro(title, has_context) ==
    IF has_context
    THEN "Hi! I'm here to learn about the **" \o title \o "** role.\n\n"
         \o "I've been given a formal description, but I want to understand how YOUR "
         \o "experience compares - where it aligns, differs, and what's missing.\n\n"
         \o "**How would YOU describe the core purpose of a " \o title \o "?**"
    ELSE "Hi! I'm here to learn about the **" \o title
         \o "** role through a brief conversation.\n\n"
         \o "**Can you give me a high-level overview of what a " \o title
         \o " actually does?**"

\* the defaults of a script run; the coverage is a fresh copy of COVERAGE_AREAS
defaults ==
    [messages |-> <<>>,
     coverage |-> [k \in DOMAIN COVERAGE_AREAS |-> COVERAGE_AREAS[k]],
     interview_complete |-> FALSE,
     ksao_result |-> None,
     initialized |-> FALSE,
     job_context |-> "",
     job_title |-> "",
     setup_complete |-> FALSE]

\* st.session_state as one mapping
SessionState ==
    [messages |-> messages,
     coverage |-> coverage,
     interview_complete |-> interview_complete,
     ksao_result |-> ksao_result,
     initialized |-> initialized,
     job_context |-> job_context,
     job_title |-> job_title,
     setup_complete |-> setup_complete]

\* the session state a script run leaves behind
Commit(ss) ==
    /\ messages' = ss.messages
    /\ coverage' = ss.coverage
    /\ interview_complete' = ss.interview_complete
    /\ ksao_result' = ss.ksao_result
    /\ initialized' = ss.initialized
    /\ job_context' = ss.job_context
    /\ job_title' = ss.job_title
    /\ setup_complete' = ss.setup_complete

\* for k, v in defaults.items(): if k not in st.session_state: st.session_state[k] = v
SetDefaults(ss) ==
    [k \in DOMAIN defaults |-> IF k \in DOMAIN ss THEN ss[k] ELSE defaults[k]]

\* for k in keys: del st.session_state[k]
DeleteKeys(ss, keys) == [k \in (DOMAIN ss) \ keys |-> ss[k]]

\* the first run past the setup screen appends the intro, once
Initialize(ss) ==
    IF ~ss.initialized
    THEN [ss EXCEPT !.messages = Append(ss.messages,
                        Message("assistant", get_intro(ss.job_title, ss.job_context # ""))),
                    !.initialized = TRUE]
    ELSE ss

\* len([m for m in messages if m["role"] == "user"])
UserCount(msgs) == Cardinality({i \in 1..Len(msgs) : msgs[i].role = "user"})
exchanges == UserCount(messages)

\* the fewest exchanges the Finish action accepts
MinExchanges == 3

\* variant: the comparison is off by one
FinishAllowedOffByOne(n) == ~(n < MinExchanges - 1)

\* the Finish action goes through when `exchanges < 3` is false
FinishAllowed(n) == ~(n < MinExchanges)

\* bool(ksao_result): neither None nor an empty dict
Truthy(result) == result # None /\ DOMAIN result[1] # {}

\* the results view is rendered and the run returns before the chat input
ResultsShown == interview_complete /\ Truthy(ksao_result)

\* the state of the interview loop
Phase ==
    IF ~setup_complete THEN "setup"
    ELSE IF interview_complete THEN "complete"
    ELSE "interviewing"

\* the event that triggered a script run: the widget, the text entered, the
\* phase the run started in, the warning it rendered, and whether its
\* generation call raised
Event(type, input, warning, failed) ==
    [type |-> type, input |-> input, before |-> Phase, warning |-> warning,
     failed |-> failed]

(***************************************************************************)
(* Inputs of the session model.                                            *)
(***************************************************************************)
TitleInputs == {"", "  ", " Nurse "}
ContextInputs == {"", "Formal description."}
Prompts == {"hello", "recently I had an example", "Hard WEEK"}
ChatResponses ==
    {Generated("Thanks. What tools do you use? INTERNAL TRACKING"),
     Raised("Connection error.")}
SynthesisResponses ==
    {Generated("Sure! {\"job_title\":\"Nurse\",\"gaps\":{}} thanks"),
     Generated("{}"),
     Generated("I cannot help with that."),
     Generated("{\"job_title\": }"),
     Raised("Connection error.")}

(***************************************************************************)
(* The script runs, one per widget event.                                  *)
(***************************************************************************)
\* variant: the title is tested without strip()
StartInterviewUnstripped(title_input, context_input) ==
    /\ pc = "session"
    /\ ~setup_complete
    /\ IF title_input # ""
       THEN /\ Commit(Initialize([SessionState EXCEPT
                                     !.job_title = Strip(title_input),
                                     !.job_context = context_input,
                                     !.setup_complete = TRUE]))
            /\ event' = Event("start", title_input, "", FALSE)
       ELSE /\ UNCHANGED session
            /\ event' = Event("start", title_input, "Please enter a job title.", FALSE)
    /\ UNCHANGED harness

\* "Start Interview" on the setup screen; an accepted title ends in st.rerun(),
\* and the rerun passes the setup screen and appends the intro
StartInterview(title_input, context_input) ==
    /\ pc = "session"
    /\ ~setup_complete
    /\ IF Strip(title_input) # ""
       THEN /\ Commit(Initialize([SessionState EXCEPT
                                     !.job_title = Strip(title_input),
                                     !.job_context = context_input,
                                     !.setup_complete = TRUE]))
            /\ event' = Event("start", title_input, "", FALSE)
       ELSE /\ UNCHANGED session
            /\ event' = Event("start", title_input, "Please enter a job title.", FALSE)
    /\ UNCHANGED harness

\* variant: a failed generation call leaves no assistant turn
SendMessageDropsFailure(prompt, resp) ==
    /\ pc = "session"
    /\ setup_complete
    /\ ~ResultsShown
    /\ exchanges < MaxTurns
    /\ LET with_user == Append(messages, Message("user", prompt))
       IN  /\ messages' = IF resp.ok
                          THEN Append(with_user, Message("assistant", call_llm(resp)))
                          ELSE with_user
           /\ coverage' = update_coverage(prompt, coverage)
    /\ event' = Event("chat", prompt, "", ~resp.ok)
    /\ UNCHANGED <<interview_complete, ksao_result, initialized, job_context,
                   job_title, setup_complete>>
    /\ UNCHANGED harness

\* a message submitted to the chat input
SendMessage(prompt, resp) ==
    /\ pc = "session"
    /\ setup_complete
    /\ ~ResultsShown
    /\ exchanges < MaxTurns
    /\ LET with_user == Append(messages, Message("user", prompt))
           response == call_llm(resp)
       IN  /\ messages' = Append(with_user, Message("assistant", response))
           /\ coverage' = update_coverage(prompt, coverage)
    /\ event' = Event("chat", prompt, "", ~resp.ok)
    /\ UNCHANGED <<interview_complete, ksao_result, initialized, job_context,
                   job_title, setup_complete>>
    /\ UNCHANGED harness

\* "Finish Interview" in the sidebar
FinishInterview ==
    /\ pc = "session"
    /\ setup_complete
    /\ IF FinishAllowed(exchanges)
       THEN /\ \E resp \in SynthesisResponses :
                   /\ ksao_result' = Some(generate_synthesis(messages, job_title, resp))
                   /\ event' = Event("finish", "", "", ~resp.ok)
            /\ interview_complete' = TRUE
            /\ UNCHANGED <<messages, coverage, initialized, job_context, job_title,
                           setup_complete>>
       ELSE /\ UNCHANGED session
            /\ event' = Event("finish", "", "Complete at least 3 exchanges.", FALSE)
    /\ UNCHANGED harness

\* variant: the coverage key survives the deletion
ResetKeepsCoverage ==
    /\ pc = "session"
    /\ setup_complete
    /\ Commit(SetDefaults(DeleteKeys(SessionState, (DOMAIN SessionState) \ {"coverage"})))
    /\ event' = Event("reset", "", "", FALSE)
    /\ UNCHANGED harness

\* "Reset" in the sidebar: every key is deleted, and the rerun sets the defaults
Reset ==
    /\ pc = "session"
    /\ setup_complete
    /\ Commit(SetDefaults(DeleteKeys(SessionState, DOMAIN SessionState)))
    /\ event' = Event("reset", "", "", FALSE)
    /\ UNCHANGED harness

\* the session after the first script run: every key set from the defaults
InitSession ==
    LET ss == SetDefaults(EmptyDict)
    IN  /\ messages = ss.messages
        /\ coverage = ss.coverage
        /\ interview_complete = ss.interview_complete
        /\ ksao_result = ss.ksao_result
        /\ initialized = ss.initialized
        /\ job_context = ss.job_context
        /\ job_title = ss.job_title
        /\ setup_complete = ss.setup_complete

Init ==
    /\ InitSession
    /\ event = Event("none", "", "", FALSE)
    /\ arg = None
    /\ ret = <<>>
    /\ pc = "session"

Next ==
    \/ \E t \in TitleInputs, c \in ContextInputs : StartInterview(t, c)
    \/ \E p \in Prompts, r \in ChatResponses : SendMessage(p, r)
    \/ FinishInterview
    \/ Reset

Spec == Init /\ [][Next]_vars

(***************************************************************************)
(* SpecSanitizer: call_llm on a generated text, then on its own output.    *)
(***************************************************************************)
SanitizerChunks ==
    {"COVERAGE", "PROGRESS:", "INTERNAL", "exchanges", HalfCircle, Circle, CheckMark,
     " ", ".", "!", "Hi?", "ok"}

GeneratedTexts == {Join(c) : c \in SeqUpTo(SanitizerChunks, MaxChunks)}

InitSanitizer ==
    /\ InitSession
    /\ event = Event("none", "", "", FALSE)
    /\ arg \in GeneratedTexts
    /\ ret = <<>>
    /\ pc = "generated"

\* the service returns the text arg; call_llm returns its sanitized form
SanitizeGenerated ==
    /\ pc = "generated"
    /\ ret' = <<call_llm(Generated(arg))>>
    /\ pc' = "sanitized"
    /\ UNCHANGED <<session, event, arg>>

\* the service returns the sanitized text itself
SanitizeAgain ==
    /\ pc = "sanitized"
    /\ ret' = Append(ret, call_llm(Generated(ret[1])))
    /\ pc' = "resanitized"
    /\ UNCHANGED <<session, event, arg>>

NextSanitizer == SanitizeGenerated \/ SanitizeAgain

SpecSanitizer == InitSanitizer /\ [][NextSanitizer]_vars

(***************************************************************************)
(* SpecSynthesis: generate_synthesis on one outcome of the service.        *)
(***************************************************************************)
\* parts concatenated into one synthesis response
MaxParts == 4

SynthesisParts == {"{", "}", "\"a\":1", "\"b\":", ",", "Sure! ", " thanks"}

SynthesisOutcomes ==
    {Generated(Join(c)) : c \in SeqUpTo(SynthesisParts, MaxParts)}
        \cup {Raised("Connection error."), Raised("overloaded_error")}

InitSynthesis ==
    /\ InitSession
    /\ event = Event("none", "", "", FALSE)
    /\ arg \in SynthesisOutcomes
    /\ ret = <<>>
    /\ pc = "calling"

CallGenerateSynthesis ==
    /\ pc = "calling"
    /\ ret' = <<generate_synthesis(messages, job_title, arg)>>
    /\ pc' = "returned"
    /\ UNCHANGED <<session, event, arg>>

NextSynthesis == CallGenerateSynthesis

SpecSynthesis == InitSynthesis /\ [][NextSynthesis]_vars

(***************************************************************************)
(* SpecCoverage: update_coverage called on a mapping the caller holds.     *)
(***************************************************************************)
CoverageMessages ==
    {"hello", "recently I had an example", "Hard WEEK", "I use Python and SQL",
     "hardware", ""}

\* every assignment of covered flags to the 7 areas
CoverageMappings ==
    {[k \in DOMAIN COVERAGE_AREAS |->
        [COVERAGE_AREAS[k] EXCEPT !.covered = (k \in covered)]] :
            covered \in SUBSET DOMAIN COVERAGE_AREAS}

InitCoverage ==
    /\ InitSession
    /\ event = Event("none", "", "", FALSE)
    /\ arg \in [msg : CoverageMessages, coverage : CoverageMappings]
    /\ ret = <<>>
    /\ pc = "calling"

\* arg.coverage is the caller's mapping object: the call assigns into it and
\* returns it
CallUpdateCoverage ==
    /\ pc = "calling"
    /\ arg' = [arg EXCEPT !.coverage = update_coverage(arg.msg, arg.coverage)]
    /\ ret' = <<arg'.coverage>>
    /\ pc' = "returned"
    /\ UNCHANGED <<session, event>>

NextCoverage == CallUpdateCoverage

SpecCoverage == InitCoverage /\ [][NextCoverage]_vars

(***************************************************************************)
(* Properties.                                                             *)
(***************************************************************************)
AreaKeys ==
    {"core_responsibilities", "technical_skills", "soft_skills", "knowledge_areas",
     "success_factors", "challenges", "critical_incidents"}

\* the text is empty or whitespace only
Blank(text) == \A i \in 1..Len(text) : At(text, i) \in Whitespace

\* msgs is an initial segment of later
IsPrefix(msgs, later) ==
    Len(msgs) <= Len(later) /\ SubSeq(later, 1, Len(msgs)) = msgs

\* C1: Finish is gated by the number of user messages: with fewer than 3 the
\* session stays in `interviewing` with no synthesis result, with 3 or more
\* the completion flag is set and a synthesis result is present; so the
\* completion flag implies at least 3 user messages.
TheoremC1 ==
    /\ interview_complete => exchanges >= 3
    /\ (event.type = "finish" /\ exchanges < 3) =>
            /\ Phase = "interviewing"
            /\ ksao_result = None
    /\ (event.type = "finish" /\ exchanges >= 3) =>
            /\ Phase = "complete"
            /\ ksao_result # None

\* a Finish went through with exactly 3 user messages
WitnessC1 ==
    /\ event.type = "finish"
    /\ event.before = "interviewing"
    /\ exchanges = 3
    /\ interview_complete
    /\ ksao_result # None

\* C2: within a session (no Reset) a covered flag stays covered through every
\* action, and the key set of the coverage mapping is always the 7 areas.
TheoremC2 ==
    /\ [](DOMAIN coverage = AreaKeys)
    /\ [][event'.type # "reset" =>
            \A k \in DOMAIN coverage : coverage[k].covered => coverage'[k].covered]_vars

\* an area covered earlier is still covered after a message that matches nothing
WitnessC2 ==
    /\ event.type = "chat"
    /\ event.input = "hello"
    /\ coverage["critical_incidents"].covered
    /\ ~coverage["technical_skills"].covered

\* C3 (as claimed): once a synthesis result is present, no action other than
\* Reset changes any session field.
CounterexampleC3 ==
    [][(ksao_result # None /\ event'.type # "reset") => UNCHANGED session]_vars

\* C4: Reset, from any state, leaves exactly the initial session state.
TheoremC4 ==
    event.type = "reset" =>
        /\ messages = <<>>
        /\ DOMAIN coverage = AreaKeys
        /\ \A k \in AreaKeys : ~coverage[k].covered
        /\ \A k \in AreaKeys : coverage[k].name = COVERAGE_AREAS[k].name
        /\ job_title = ""
        /\ job_context = ""
        /\ ~interview_complete
        /\ ksao_result = None
        /\ ~initialized
        /\ Phase = "setup"

\* a Reset of a completed session
WitnessC4 ==
    /\ event.type = "reset"
    /\ event.before = "complete"
    /\ messages = <<>>

\* C5: a chat message appends exactly the user message and then one assistant
\* message, also when the generation call fails (then the assistant turn is the
\* literal error text and the phase does not change); the exchange count rises
\* by one; and outside Reset the transcript only grows at its end.
TheoremC5 ==
    /\ [][event'.type = "chat" =>
            /\ Len(messages') = Len(messages) + 2
            /\ IsPrefix(messages, messages')
            /\ messages'[Len(messages) + 1] = Message("user", event'.input)
            /\ messages'[Len(messages) + 2].role = "assistant"
            /\ UserCount(messages') = UserCount(messages) + 1
            /\ interview_complete' = interview_complete
            /\ setup_complete' = setup_complete
            /\ event'.failed =>
                  messages'[Len(messages) + 2].content
                      = "Technical issue: Connection error."]_vars
    /\ [][event'.type # "reset" =>
            /\ IsPrefix(messages, messages')
            /\ UserCount(messages') >= UserCount(messages)]_vars

\* a turn whose generation call failed, with the session still interviewing
WitnessC5 ==
    /\ event.type = "chat"
    /\ event.failed
    /\ Phase = "interviewing"
    /\ exchanges = 2
    /\ Len(messages) = 5

\* C6: a Start with an empty or whitespace-only title and a Finish with fewer
\* than 3 user messages change no session field; past `setup` the job title
\* is never empty.
TheoremC6 ==
    /\ [][((event'.type = "start" /\ Blank(event'.input))
            \/ (event'.type = "finish" /\ exchanges < 3)) => UNCHANGED session]_vars
    /\ [](setup_complete => ~Blank(job_title))

\* a Start with a whitespace-only title was rejected
WitnessC6 ==
    /\ event.type = "start"
    /\ event.input = "  "
    /\ event.warning = "Please enter a job title."
    /\ Phase = "setup"

MarkerSet == {Markers[i] : i \in DOMAIN Markers}

\* the text before the first occurrence of marker
Preceding(text, marker) == SubSeq(text, 1, SetMin(Occurrences(text, marker)) - 1)

EndsInTerminal(text) == text # "" /\ At(text, Len(text)) \in TerminalPunctuation

\* C7: for a generated text containing "INTERNAL" the sanitized output does
\* not contain "INTERNAL" and is the fallback question or a piece of the text
\* preceding the first "INTERNAL"; the same for every marker of the set, so the
\* output comes from before the earliest marker and holds no marker.
TheoremC7 ==
    pc # "generated" =>
        LET out == ret[1]
        IN  /\ Contains(arg, "INTERNAL") =>
                  /\ ~Contains(out, "INTERNAL")
                  /\ out = Fallback \/ Contains(Preceding(arg, "INTERNAL"), out)
            /\ \A m \in MarkerSet :
                  /\ ~Contains(out, m)
                  /\ Contains(arg, m) =>
                        (out = Fallback \/ Contains(Preceding(arg, m), out))

\* text follows "INTERNAL", and the output is a proper piece of what precedes it
WitnessC7 ==
    /\ pc = "sanitized"
    /\ Contains(arg, "INTERNAL")
    /\ Find(arg, "INTERNAL") + 8 < Len(arg)
    /\ ret[1] # Fallback
    /\ Len(ret[1]) < Find(arg, "INTERNAL")

\* C8: a text that ends in terminal punctuation and holds no marker comes back
\* unchanged, and sanitizing a sanitized text returns it unchanged.
TheoremC8 ==
    /\ (pc # "generated" /\ EndsInTerminal(arg) /\ \A m \in MarkerSet : ~Contains(arg, m))
            => ret[1] = arg
    /\ pc = "resanitized" => ret[2] = ret[1]

\* the first pass cut the text and found no terminal punctuation to cut back to
WitnessC8 ==
    /\ pc = "resanitized"
    /\ ret[1] # arg
    /\ ret[1] # Fallback
    /\ ~EndsInTerminal(ret[1])
    /\ ret[2] = ret[1]

\* the brace-delimited region of the text: from the first '{' to the last '}'
HasRegion(text) ==
    /\ Contains(text, "{")
    /\ Contains(text, "}")
    /\ SetMax(Occurrences(text, "}")) > SetMin(Occurrences(text, "{"))

Region(text) ==
    SubSeq(text, SetMin(Occurrences(text, "{")), SetMax(Occurrences(text, "}")))

CounterexampleC10 ==
    [][(pc = "calling" /\ pc' = "returned") =>
            /\ \A k \in AreaKeys :
                  arg'.coverage[k].covered = arg.coverage[k].covered
            /\ \A k \in AreaKeys :
                  ret'[1][k].covered
                      <=> (arg.coverage[k].covered \/ AnyWordIn(Lower(arg.msg), checks[k]))]_vars

====
